---- MODULE Spec2Model ----
(***************************************************************************)
(* Quote lifecycle of the marketplace backend (quotes/views.py,            *)
(* quotes/serializers.py, quotes/models.py): creation with eligibility and *)
(* duplicate checks, update with the acceptance side effects (order,       *)
(* design status, sibling rejection), deletion.                            *)
(*                                                                         *)
(* Every HTTP request is a short process.  A step of a request is one      *)
(* round of database access together with the in-memory code that follows  *)
(* it; requests of different clients interleave between steps.  The        *)
(* instance a view loads (get_object) is an in-memory copy: later steps of *)
(* the same request work on that copy, not on the row.                     *)
(***************************************************************************)
EXTENDS Integers, FiniteSets, Sequences, TLC

\* ---------------------------------------------------------------- bounds
MaxQuotes == 2      \* quote ids ever issued
MaxInflight == 2    \* requests in flight at the same time
MaxReviews == 2     \* review ids ever issued

\* ------------------------------------------------------------ directory
\* accounts.User rows of the test fixture: a customer, two manufacturers, staff.
Users == {"c1", "m1", "m2", "adm"}

\* The fixture of the review tests has a second customer.
Accounts == Users \cup {"c2"}

role == [u \in Accounts |->
           CASE u \in {"c1", "c2"} -> "customer"
             [] u \in {"m1", "m2"} -> "manufacturer"
             [] OTHER -> "admin"]

is_staff == [u \in Accounts |-> u = "adm"]

\* designs.Design rows: d1 belongs to the customer, d2 to manufacturer m1.
Designs == {"d1", "d2"}

\* A design id of the route that names no row.
DesignRefs == Designs \cup {"dX"}

customer == [d \in Designs |-> IF d = "d1" THEN "c1" ELSE "m1"]

ANALYSIS_COMPLETE == "analysis_complete"
PENDING_ANALYSIS == "pending_analysis"
ORDERED == "ordered"

\* ---------------------------------------------------------------- quotes
PENDING == "pending"
ACCEPTED == "accepted"
REJECTED == "rejected"
EXPIRED == "expired"

QuoteStatus == {PENDING, ACCEPTED, REJECTED, EXPIRED}

\* A field the payload does not carry.
Absent == "absent"

Prices == {100, 150}
Leads == {3, 7}

\* Calendar dates on which an order can be created, as day numbers.
Days == {1, 2}

\* No date (NULL).
NoDate == 0

QuoteIds == 1 .. MaxQuotes
Slots == 1 .. MaxInflight

VARIABLES
  quotes,        \* table Quotes: a set of rows
  orders,        \* table of orders: a set of rows
  designStatus,  \* Design.status of every design
  nextQuoteId,   \* the next fresh quote id
  nextOrderId,   \* the next fresh order id
  reqs,          \* the requests in flight, one per slot
  resp,          \* the response of the request that answered last
  pricing,       \* a call of the pricing function: its arguments and its result
  reviews,       \* table of reviews: a set of rows
  nextReviewId   \* the next fresh review id

\* The state outside the quote lifecycle.
elsewhere == <<pricing, reviews, nextReviewId>>

\* The state of the quote lifecycle, responses apart.
lifecycle == <<quotes, orders, designStatus, nextQuoteId, nextOrderId, reqs>>

vars ==
  <<quotes, orders, designStatus, nextQuoteId, nextOrderId, reqs, resp, elsewhere>>

NoQuote == [id |-> 0, design |-> "dX", manufacturer |-> "adm", price |-> 0,
            lead |-> 0, status |-> PENDING, notes |-> ""]

\* A request in flight: where it is, the instance it holds in memory, whether
\* its update is the accepted edge, and the design status loaded with the quote.
IdleSlot == [pc |-> "idle", inst |-> NoQuote, edge |-> FALSE,
             dstatus |-> PENDING_ANALYSIS]

\* A response: the operation answered, the HTTP status, the reason, and the quote
\* rows of its body (read requests only).
RespWith(op, code, reason, rows) ==
  [op |-> op, code |-> code, reason |-> reason, rows |-> rows]

Resp(op, code, reason) == RespWith(op, code, reason, {})

\* resp when the responses are not recorded.
Unobserved == Resp("unobserved", 0, "")

\* No call of the pricing function.
NoPricing == [called |-> FALSE]

\* The database after the fixture: users and designs, no quote, no order.
InitData ==
  /\ quotes = {}
  /\ orders = {}
  /\ designStatus \in [Designs -> {PENDING_ANALYSIS, ANALYSIS_COMPLETE}]
  /\ nextQuoteId = 1
  /\ nextOrderId = 1
  /\ reqs = [s \in Slots |-> IdleSlot]
  /\ pricing = NoPricing
  /\ reviews = {}
  /\ nextReviewId = 1

\* The interleaved runs look at the database only.
Init == InitData /\ resp = Unobserved

\* The runs with one request at a time record every response.
InitSeq == InitData /\ resp = Resp("none", 0, "")

\* The response of a request reaches its client.
Answer(r) == resp' = IF resp = Unobserved THEN resp ELSE r

\* No response waits for its client: the last one was read, or none is recorded.
Delivered == resp.op \in {"none", "unobserved"}

\* ------------------------------------------------------------- helpers
QuoteById(id) == CHOOSE q \in quotes : q.id = id

IdsOf(Q) == {q.id : q \in Q}

\* A new request takes the first free slot; a client that runs its requests one
\* at a time has read the response of the last one before it sends the next.
Idle(s) ==
  /\ Delivered
  /\ reqs[s].pc = "idle"
  /\ \A r \in Slots : r < s => reqs[r].pc # "idle"

\* Create requests that passed the policy and have not inserted yet.
CreatesInFlight == Cardinality({s \in Slots : reqs[s].pc \in {"check", "insert"}})

\* ------------------------------------------------------- request payloads
\* A numeric field of a payload is the empty set (not sent) or a singleton.
StatusOpt == QuoteStatus \cup {Absent}
CreateStatusOpt == {Absent, ACCEPTED}

\* POST bodies: the writable fields, and the read-only design / manufacturer
\* a client may send all the same.  Quotes are created at the lower price and
\* the longer lead time, with or without a status; the price may be missing (an
\* invalid body).
CreatePayloads ==
  {data \in [status : CreateStatusOpt, price : {{}, {100}}, lead : {{7}},
             notes : {Absent}, extra : {FALSE},
             design : {Absent, "d2"}, manufacturer : {Absent, "m2"}] :
     (data.design = Absent) = (data.manufacturer = Absent)}

\* The POST bodies of the interleaved runs: the required fields only.
PlainCreatePayloads ==
  {data \in CreatePayloads :
     /\ data.status = Absent /\ data.price = {100} /\ data.lead = {7}
     /\ data.design = Absent}

\* PATCH bodies: any status or none; the detail fields (price, lead time, notes),
\* which the code treats alike, are changed together or not at all, to the
\* higher price and the shorter lead time.  extra is a key that is no writable
\* field of the serializer.
UpdatePayloads ==
  {data \in [status : StatusOpt, price : {{}, {150}}, lead : {{}, {3}},
             notes : {Absent}, extra : BOOLEAN] :
     (data.price = {}) = (data.lead = {})}

\* The PATCH bodies of the interleaved runs: a status and nothing else.
PlainUpdatePayloads ==
  {data \in UpdatePayloads :
     data.status # Absent /\ data.price = {} /\ ~data.extra}

\* len(request.data)
DataLen(data) ==
  (IF data.status # Absent THEN 1 ELSE 0) + (IF data.price # {} THEN 1 ELSE 0)
  + (IF data.lead # {} THEN 1 ELSE 0) + (IF data.notes # Absent THEN 1 ELSE 0)
  + (IF data.extra THEN 1 ELSE 0)

\* serializer.validated_data: the read-only fields never reach it.
ValidatedData(data) ==
  [status |-> data.status, price |-> data.price, lead |-> data.lead,
   notes |-> data.notes]

\* ---------------------------------------------------------------- create
\* Variant: the policy without the test of the design status.
CanCreateQuoteForDesign_NoStatusTest(user, design_id) ==
  IF role[user] # "manufacturer" THEN "not_manufacturer"
  ELSE IF design_id \notin Designs THEN "design_not_found"
  ELSE IF customer[design_id] = user THEN "own_design"
  ELSE "ok"

\* Variant: the policy with the status tested before the ownership.
CanCreateQuoteForDesign_StatusFirst(user, design_id) ==
  IF role[user] # "manufacturer" THEN "not_manufacturer"
  ELSE IF design_id \notin Designs THEN "design_not_found"
  ELSE IF designStatus[design_id] # ANALYSIS_COMPLETE THEN "design_status"
  ELSE IF customer[design_id] = user THEN "own_design"
  ELSE "ok"

\* Variant: the policy admits ordered designs as well.
CanCreateQuoteForDesign_OrderedToo(user, design_id) ==
  IF role[user] # "manufacturer" THEN "not_manufacturer"
  ELSE IF design_id \notin Designs THEN "design_not_found"
  ELSE IF customer[design_id] = user THEN "own_design"
  ELSE IF designStatus[design_id] \notin {ANALYSIS_COMPLETE, ORDERED}
  THEN "design_status"
  ELSE "ok"

\* Variant: the policy without the test of the role.
CanCreateQuoteForDesign_NoRoleTest(user, design_id) ==
  IF design_id \notin Designs THEN "design_not_found"
  ELSE IF customer[design_id] = user THEN "own_design"
  ELSE IF designStatus[design_id] # ANALYSIS_COMPLETE THEN "design_status"
  ELSE "ok"

\* CanCreateQuoteForDesign.has_permission: "ok" or the reason of the denial.
CanCreateQuoteForDesign(user, design_id) ==
  IF role[user] # "manufacturer" THEN "not_manufacturer"
  ELSE IF design_id \notin Designs THEN "design_not_found"
  ELSE IF customer[design_id] = user THEN "own_design"
  ELSE IF designStatus[design_id] # ANALYSIS_COMPLETE THEN "design_status"
  ELSE "ok"

\* The serializer's field validation of a POST: price and lead time are required.
CreateFieldsValid(vdata) == vdata.price # {} /\ vdata.lead # {}

\* serializer.save(design=design, manufacturer=request.user): the validated
\* fields, the two keyword arguments, and the model's defaults for the rest.
NewQuote(id, vdata, design, user) ==
  [id |-> id, design |-> design, manufacturer |-> user,
   price |-> CHOOSE p \in vdata.price : TRUE,
   lead |-> CHOOSE l \in vdata.lead : TRUE,
   status |-> IF vdata.status # Absent THEN vdata.status ELSE PENDING,
   notes |-> IF vdata.notes # Absent THEN vdata.notes ELSE ""]

\* POST /designs/{design_id}/quotes, first step: the view-level permission
\* (it reads the design) and the serializer's validation.
CreatePerm(s, user, design_id, data) ==
  /\ Idle(s)
  /\ nextQuoteId + CreatesInFlight <= MaxQuotes
  /\ LET why == CanCreateQuoteForDesign(user, design_id)
         vdata == ValidatedData(data)
     IN  IF why # "ok"
         THEN /\ Answer(Resp("create", 403, why))
              /\ UNCHANGED reqs
         ELSE IF ~CreateFieldsValid(vdata)
         THEN /\ Answer(Resp("create", 400, "invalid"))
              /\ UNCHANGED reqs
         ELSE /\ reqs' = [reqs EXCEPT ![s] =
                   [IdleSlot EXCEPT !.pc = "check",
                                    !.inst = NewQuote(0, vdata, design_id, user)]]
              /\ UNCHANGED resp
  /\ UNCHANGED <<quotes, orders, designStatus, nextQuoteId, nextOrderId,
                 elsewhere>>

\* Variant: the pre-check leaves rejected quotes out.
QuoteExistsFor_NotRejected(design, user) ==
  \E q \in quotes :
    q.design = design /\ q.manufacturer = user /\ q.status # REJECTED

\* Variant: the pre-check looks at pending quotes only.
QuoteExistsFor_PendingOnly(design, user) ==
  \E q \in quotes :
    q.design = design /\ q.manufacturer = user /\ q.status = PENDING

\* Quote.objects.filter(design=design, manufacturer=request.user).exists()
QuoteExistsFor(design, user) ==
  \E q \in quotes : q.design = design /\ q.manufacturer = user

\* perform_create, the duplicate pre-check.
CreateCheck(s) ==
  /\ reqs[s].pc = "check"
  /\ IF QuoteExistsFor(reqs[s].inst.design, reqs[s].inst.manufacturer)
     THEN /\ Answer(Resp("create", 400, "duplicate"))
          /\ reqs' = [reqs EXCEPT ![s] = IdleSlot]
     ELSE /\ reqs' = [reqs EXCEPT ![s].pc = "insert"]
          /\ UNCHANGED resp
  /\ UNCHANGED <<quotes, orders, designStatus, nextQuoteId, nextOrderId,
                 elsewhere>>

\* perform_create, the INSERT; the table has no uniqueness constraint on
\* (design, manufacturer) (Quote.Meta declares none).
CreateInsert(s) ==
  /\ reqs[s].pc = "insert"
  /\ quotes' = quotes \cup {[reqs[s].inst EXCEPT !.id = nextQuoteId]}
  /\ nextQuoteId' = nextQuoteId + 1
  /\ Answer(Resp("create", 201, "created"))
  /\ reqs' = [reqs EXCEPT ![s] = IdleSlot]
  /\ UNCHANGED <<orders, designStatus, nextOrderId, elsewhere>>
\* ---------------------------------------------------------------- update
\* Variant: the design owner's status change is not tied to a pending quote.
CanUpdateQuote_CustomerAnyState(user, obj, data) ==
  LET is_design_owner == customer[obj.design] = user
      is_quote_creator == obj.manufacturer = user
  IN  IF is_staff[user] THEN "ok"
      ELSE IF ~(is_design_owner \/ is_quote_creator) THEN "not_involved"
      ELSE IF data.status # Absent /\ DataLen(data) = 1
      THEN IF is_design_owner
           THEN IF data.status \in {ACCEPTED, REJECTED}
                THEN "ok" ELSE "customer_transition"
           ELSE IF obj.status = PENDING /\ data.status = EXPIRED
                THEN "ok" ELSE "manufacturer_transition"
      ELSE IF is_quote_creator /\ obj.status = PENDING
      THEN IF data.status # Absent /\ data.status # obj.status
           THEN "manufacturer_details_only" ELSE "ok"
      ELSE "state_or_data"

\* Variant: the manufacturer may request any status for a pending quote.
CanUpdateQuote_ManufacturerAnyStatus(user, obj, data) ==
  LET is_design_owner == customer[obj.design] = user
      is_quote_creator == obj.manufacturer = user
  IN  IF is_staff[user] THEN "ok"
      ELSE IF ~(is_design_owner \/ is_quote_creator) THEN "not_involved"
      ELSE IF data.status # Absent /\ DataLen(data) = 1
      THEN IF is_design_owner
           THEN IF obj.status = PENDING /\ data.status \in {ACCEPTED, REJECTED}
                THEN "ok" ELSE "customer_transition"
           ELSE IF obj.status = PENDING
                THEN "ok" ELSE "manufacturer_transition"
      ELSE IF is_quote_creator /\ obj.status = PENDING
      THEN IF data.status # Absent /\ data.status # obj.status
           THEN "manufacturer_details_only" ELSE "ok"
      ELSE "state_or_data"

\* Variant: the manufacturer may set a quote of any status to expired.
CanUpdateQuote_ExpiresAnyState(user, obj, data) ==
  LET is_design_owner == customer[obj.design] = user
      is_quote_creator == obj.manufacturer = user
  IN  IF is_staff[user] THEN "ok"
      ELSE IF ~(is_design_owner \/ is_quote_creator) THEN "not_involved"
      ELSE IF data.status # Absent /\ DataLen(data) = 1
      THEN IF is_design_owner
           THEN IF obj.status = PENDING /\ data.status \in {ACCEPTED, REJECTED}
                THEN "ok" ELSE "customer_transition"
           ELSE IF data.status = EXPIRED
                THEN "ok" ELSE "manufacturer_transition"
      ELSE IF is_quote_creator /\ obj.status = PENDING
      THEN IF data.status # Absent /\ data.status # obj.status
           THEN "manufacturer_details_only" ELSE "ok"
      ELSE "state_or_data"

\* Variant: the manufacturer may change the details of an accepted quote too.
CanUpdateQuote_DetailsWhileAccepted(user, obj, data) ==
  LET is_design_owner == customer[obj.design] = user
      is_quote_creator == obj.manufacturer = user
  IN  IF is_staff[user] THEN "ok"
      ELSE IF ~(is_design_owner \/ is_quote_creator) THEN "not_involved"
      ELSE IF data.status # Absent /\ DataLen(data) = 1
      THEN IF is_design_owner
           THEN IF obj.status = PENDING /\ data.status \in {ACCEPTED, REJECTED}
                THEN "ok" ELSE "customer_transition"
           ELSE IF obj.status = PENDING /\ data.status = EXPIRED
                THEN "ok" ELSE "manufacturer_transition"
      ELSE IF is_quote_creator /\ obj.status \in {PENDING, ACCEPTED}
      THEN IF data.status # Absent /\ data.status # obj.status
           THEN "manufacturer_details_only" ELSE "ok"
      ELSE "state_or_data"

\* Variant: the manufacturer may change the details of a quote in any status.
CanUpdateQuote_DetailsAnyState(user, obj, data) ==
  LET is_design_owner == customer[obj.design] = user
      is_quote_creator == obj.manufacturer = user
  IN  IF is_staff[user] THEN "ok"
      ELSE IF ~(is_design_owner \/ is_quote_creator) THEN "not_involved"
      ELSE IF data.status # Absent /\ DataLen(data) = 1
      THEN IF is_design_owner
           THEN IF obj.status = PENDING /\ data.status \in {ACCEPTED, REJECTED}
                THEN "ok" ELSE "customer_transition"
           ELSE IF obj.status = PENDING /\ data.status = EXPIRED
                THEN "ok" ELSE "manufacturer_transition"
      ELSE IF is_quote_creator
      THEN IF data.status # Absent /\ data.status # obj.status
           THEN "manufacturer_details_only" ELSE "ok"
      ELSE "state_or_data"

\* CanUpdateQuote.has_object_permission: "ok" or the reason of the denial.
CanUpdateQuote(user, obj, data) ==
  LET is_design_owner == customer[obj.design] = user
      is_quote_creator == obj.manufacturer = user
  IN  IF is_staff[user] THEN "ok"
      ELSE IF ~(is_design_owner \/ is_quote_creator) THEN "not_involved"
      ELSE IF data.status # Absent /\ DataLen(data) = 1
      THEN IF is_design_owner
           THEN IF obj.status = PENDING /\ data.status \in {ACCEPTED, REJECTED}
                THEN "ok" ELSE "customer_transition"
           ELSE IF obj.status = PENDING /\ data.status = EXPIRED
                THEN "ok" ELSE "manufacturer_transition"
      ELSE IF is_quote_creator /\ obj.status = PENDING
      THEN IF data.status # Absent /\ data.status # obj.status
           THEN "manufacturer_details_only" ELSE "ok"
      ELSE "state_or_data"

\* QuoteSerializer.validate on an update: "ok" or the validation error.
ValidateUpdate(user, instance, vdata) ==
  LET design == instance.design
      manufacturer_user == instance.manufacturer
  IN  IF customer[design] = manufacturer_user THEN "own_design"
      ELSE IF vdata.status = Absent THEN "ok"
      ELSE IF user = customer[design]
      THEN IF instance.status = PENDING /\ vdata.status \notin {ACCEPTED, REJECTED}
           THEN "customer_status" ELSE "ok"
      ELSE IF user = manufacturer_user
      THEN IF vdata.status # instance.status /\ vdata.status # EXPIRED
           THEN "manufacturer_status" ELSE "ok"
      ELSE "status_not_permitted"

\* ModelSerializer.update: the validated fields are set on the loaded instance.
ApplyUpdate(instance, vdata) ==
  [instance EXCEPT
     !.status = IF vdata.status # Absent THEN vdata.status ELSE @,
     !.price = IF vdata.price # {} THEN CHOOSE p \in vdata.price : TRUE ELSE @,
     !.lead = IF vdata.lead # {} THEN CHOOSE l \in vdata.lead : TRUE ELSE @,
     !.notes = IF vdata.notes # Absent THEN vdata.notes ELSE @]

\* Variant: the test looks at the new status only.
AcceptedEdge_NewStatusOnly(quote_instance, vdata) ==
  LET original_status == quote_instance.status
      new_status == IF vdata.status # Absent THEN vdata.status ELSE original_status
  IN  new_status = ACCEPTED

\* Variant: every update runs the acceptance block.
AcceptedEdge_Always(quote_instance, vdata) == TRUE

\* perform_update's test: the status goes from a non-accepted one to accepted.
AcceptedEdge(quote_instance, vdata) ==
  LET original_status == quote_instance.status
      new_status == IF vdata.status # Absent THEN vdata.status ELSE original_status
  IN  original_status # ACCEPTED /\ new_status = ACCEPTED

\* PATCH /quotes/{id}, first step: get_object (the quote with its design,
\* select_related), the object permission, the serializer's validation and the
\* in-memory part of perform_update (the fields set on the instance, the edge).
UpdateLoad(s, user, id, data) ==
  /\ Idle(s)
  /\ IF id \notin IdsOf(quotes)
     THEN /\ Answer(Resp("update", 404, "not_found"))
          /\ UNCHANGED reqs
     ELSE LET obj == QuoteById(id)
              why == CanUpdateQuote(user, obj, data)
              vdata == ValidatedData(data)
              err == ValidateUpdate(user, obj, vdata)
          IN  IF why # "ok"
              THEN /\ Answer(Resp("update", 403, why))
                   /\ UNCHANGED reqs
              ELSE IF err # "ok"
              THEN /\ Answer(Resp("update", 400, err))
                   /\ UNCHANGED reqs
              ELSE /\ reqs' = [reqs EXCEPT ![s] =
                        [IdleSlot EXCEPT
                           !.pc = "save",
                           !.inst = ApplyUpdate(obj, vdata),
                           !.edge = AcceptedEdge(obj, vdata),
                           !.dstatus = IF AcceptedEdge(obj, vdata)
                                       THEN designStatus[obj.design] ELSE @]]
                   /\ UNCHANGED resp
  /\ UNCHANGED <<quotes, orders, designStatus, nextQuoteId, nextOrderId,
                 elsewhere>>

\* Variant: the save writes nothing.
SaveRow_NoWrite(row) == quotes

\* Model.save() of the loaded instance: every column of the row with this id is
\* written from the in-memory copy (an UPDATE, or an INSERT when the row is gone).
SaveRow(row) == {q \in quotes : q.id # row.id} \cup {row}

\* perform_update: serializer.save(), then the test of the accepted edge.
UpdateSave(s) ==
  /\ reqs[s].pc = "save"
  /\ quotes' = SaveRow(reqs[s].inst)
  /\ IF reqs[s].edge
     THEN /\ reqs' = [reqs EXCEPT ![s].pc = "guard"]
          /\ UNCHANGED resp
     ELSE /\ reqs' = [reqs EXCEPT ![s] = IdleSlot]
          /\ Answer(Resp("update", 200, "updated"))
  /\ UNCHANGED <<orders, designStatus, nextQuoteId, nextOrderId, elsewhere>>

\* hasattr(updated_quote, 'order_created_from'): the reverse one-to-one lookup.
HasOrder(id) == \E o \in orders : o.accepted_quote = id

\* The acceptance block, its guard: an order of this quote exists already.
AcceptGuard(s) ==
  /\ reqs[s].pc = "guard"
  /\ IF HasOrder(reqs[s].inst.id)
     THEN /\ reqs' = [reqs EXCEPT ![s] = IdleSlot]
          /\ Answer(Resp("update", 200, "order_exists"))
     ELSE /\ reqs' = [reqs EXCEPT ![s].pc = "body"]
          /\ UNCHANGED resp
  /\ UNCHANGED <<quotes, orders, designStatus, nextQuoteId, nextOrderId,
                 elsewhere>>

\* Variant: customer and manufacturer of the order swapped.
NewOrder_Swapped(id, updated_quote, today) ==
  [id |-> id, accepted_quote |-> updated_quote.id,
   design |-> updated_quote.design,
   customer |-> updated_quote.manufacturer,
   manufacturer |-> customer[updated_quote.design],
   total |-> updated_quote.price,
   status |-> "pending_payment",
   created_at |-> today,
   estimated_delivery_date |-> NoDate]

\* Order.objects.create(...) for the accepted quote, on the date today.
NewOrder(id, updated_quote, today) ==
  [id |-> id, accepted_quote |-> updated_quote.id,
   design |-> updated_quote.design,
   customer |-> customer[updated_quote.design],
   manufacturer |-> updated_quote.manufacturer,
   total |-> updated_quote.price,
   status |-> "pending_payment",
   created_at |-> today,
   estimated_delivery_date |-> NoDate]

\* Variant: the default lead time is passed instead of the quote's.
quote_lead_time_days_Default(updated_quote) == 7

\* The lead time perform_update passes to the delivery computation.
quote_lead_time_days(updated_quote) == updated_quote.lead

\* Order.calculate_and_set_estimated_delivery: the creation date plus the lead
\* time in calendar days.
calculate_and_set_estimated_delivery(order, lead_time_days) ==
  [order EXCEPT !.estimated_delivery_date = order.created_at + lead_time_days]

\* Variant: the orders table takes any number of rows per accepted_quote.
OrderUniqueOk_NoConstraint(id) == TRUE

\* order_created_from is a one-to-one reverse accessor: the orders table holds
\* at most one row per accepted_quote, and an INSERT of a second one raises.
OrderUniqueOk(id) == ~HasOrder(id)

\* Variant: the other quotes of the design are rejected whatever their status.
RejectOthers_AnyStatus(updated_quote) ==
  {IF q.design = updated_quote.design /\ q.id # updated_quote.id
   THEN [q EXCEPT !.status = REJECTED] ELSE q : q \in quotes}

\* Variant: the other quotes are selected by manufacturer, not by design.
RejectOthers_ByManufacturer(updated_quote) ==
  {IF q.manufacturer = updated_quote.manufacturer /\ q.status = PENDING
      /\ q.id # updated_quote.id
   THEN [q EXCEPT !.status = REJECTED] ELSE q : q \in quotes}

\* Variant: the design is written only when it is ordered already.
DesignOrdered_Inverted(loaded_status, design) ==
  IF loaded_status = ORDERED
  THEN [designStatus EXCEPT ![design] = ORDERED]
  ELSE designStatus

\* The design is set to ordered unless the loaded copy says it is already.
DesignOrdered(loaded_status, design) ==
  IF loaded_status # ORDERED
  THEN [designStatus EXCEPT ![design] = ORDERED]
  ELSE designStatus

\* The other pending quotes of the design are rejected, status column only.
RejectOthers(updated_quote) ==
  {IF q.design = updated_quote.design /\ q.status = PENDING
      /\ q.id # updated_quote.id
   THEN [q EXCEPT !.status = REJECTED] ELSE q : q \in quotes}

\* Variant: the failure of the block is raised to the caller as a validation
\* error.
OnBlockException_Raise == Resp("update", 400, "order_creation_failed")

\* The except clause of perform_update: the exception is logged and passed, and
\* the update answers 200.
OnBlockException == Resp("update", 200, "side_effects_failed")

\* The acceptance block after its guard, to its commit, on the date today.  An
\* exception anywhere in the block (failed) rolls the block back; it is logged
\* and the request answers 200 all the same.  The design status tested is the
\* one loaded with the quote.
AcceptBody(s) ==
  /\ reqs[s].pc = "body"
  /\ \E failed \in BOOLEAN, today \in Days :
       LET updated_quote == reqs[s].inst
           order == calculate_and_set_estimated_delivery(
                      NewOrder(nextOrderId, updated_quote, today),
                      quote_lead_time_days(updated_quote))
       IN  IF failed \/ ~OrderUniqueOk(updated_quote.id)
           THEN /\ Answer(OnBlockException)
                /\ UNCHANGED <<quotes, orders, designStatus, nextOrderId>>
           ELSE /\ orders' = orders \cup {order}
                /\ nextOrderId' = nextOrderId + 1
                /\ designStatus' =
                     DesignOrdered(reqs[s].dstatus, updated_quote.design)
                /\ quotes' = RejectOthers(updated_quote)
                /\ Answer(Resp("update", 200, "accepted"))
  /\ reqs' = [reqs EXCEPT ![s] = IdleSlot]
  /\ UNCHANGED <<nextQuoteId, elsewhere>>

\* ---------------------------------------------------------------- delete
\* Variant: every authenticated actor may read a quote.
IsQuoteOwnerOrDesignOwnerOrAdmin_Anyone(user, obj) == TRUE

\* IsQuoteOwnerOrDesignOwnerOrAdmin.has_object_permission
IsQuoteOwnerOrDesignOwnerOrAdmin(user, obj) ==
  \/ is_staff[user]
  \/ obj.manufacturer = user
  \/ customer[obj.design] = user

\* Variant: the manufacturer may delete their quote in any status.
CanDestroy_AnyStatus(user, instance) ==
  \/ is_staff[user]
  \/ instance.manufacturer = user

\* perform_destroy, its test.
CanDestroy(user, instance) ==
  \/ is_staff[user]
  \/ (instance.manufacturer = user /\ instance.status = PENDING)

\* DELETE /quotes/{id}, first step: get_object, the object permission and
\* perform_destroy's test on the loaded instance.
DeleteLoad(s, user, id) ==
  /\ Idle(s)
  /\ IF id \notin IdsOf(quotes)
     THEN /\ Answer(Resp("delete", 404, "not_found"))
          /\ UNCHANGED reqs
     ELSE LET obj == QuoteById(id)
          IN  IF ~IsQuoteOwnerOrDesignOwnerOrAdmin(user, obj)
              THEN /\ Answer(Resp("delete", 403, "not_involved"))
                   /\ UNCHANGED reqs
              ELSE IF ~CanDestroy(user, obj)
              THEN /\ Answer(Resp("delete", 403, "not_pending_own"))
                   /\ UNCHANGED reqs
              ELSE /\ reqs' = [reqs EXCEPT ![s] =
                        [IdleSlot EXCEPT !.pc = "destroy", !.inst = obj]]
                   /\ UNCHANGED resp
  /\ UNCHANGED <<quotes, orders, designStatus, nextQuoteId, nextOrderId,
                 elsewhere>>

\* The orders after the row of a quote is deleted: no cascading effect.
OrdersAfterQuoteDelete(id) == orders

\* instance.delete()
DeleteRow(s) ==
  /\ reqs[s].pc = "destroy"
  /\ quotes' = {q \in quotes : q.id # reqs[s].inst.id}
  /\ orders' = OrdersAfterQuoteDelete(reqs[s].inst.id)
  /\ Answer(Resp("delete", 204, "deleted"))
  /\ reqs' = [reqs EXCEPT ![s] = IdleSlot]
  /\ UNCHANGED <<designStatus, nextQuoteId, nextOrderId, elsewhere>>

\* ------------------------------------------------------------------ read
\* Variant: a manufacturer is shown every quote of the design.
get_queryset_AllForManufacturer(user, design) ==
  IF is_staff[user] THEN {q \in quotes : q.design = design}
  ELSE IF customer[design] = user THEN {q \in quotes : q.design = design}
  ELSE IF role[user] = "manufacturer"
  THEN {q \in quotes : q.design = design}
  ELSE {}

\* QuoteListCreateView.get_queryset, for a design that exists.
get_queryset(user, design) ==
  IF is_staff[user] THEN {q \in quotes : q.design = design}
  ELSE IF customer[design] = user THEN {q \in quotes : q.design = design}
  ELSE IF role[user] = "manufacturer"
  THEN {q \in quotes : q.design = design /\ q.manufacturer = user}
  ELSE {}

\* GET /designs/{design_id}/quotes: one read of the database.
ListQuotes(s, user, design_id) ==
  /\ Idle(s)
  /\ IF design_id \notin Designs
     THEN Answer(Resp("list", 404, "design_not_found"))
     ELSE Answer(RespWith("list", 200, "listed", get_queryset(user, design_id)))
  /\ UNCHANGED <<quotes, orders, designStatus, nextQuoteId, nextOrderId, reqs,
                 elsewhere>>

\* GET /quotes/{id}: get_object and the object permission.
Retrieve(s, user, id) ==
  /\ Idle(s)
  /\ IF id \notin IdsOf(quotes)
     THEN Answer(Resp("retrieve", 404, "not_found"))
     ELSE LET obj == QuoteById(id)
          IN  IF ~IsQuoteOwnerOrDesignOwnerOrAdmin(user, obj)
              THEN Answer(Resp("retrieve", 403, "not_involved"))
              ELSE Answer(RespWith("retrieve", 200, "retrieved", {obj}))
  /\ UNCHANGED <<quotes, orders, designStatus, nextQuoteId, nextOrderId, reqs,
                 elsewhere>>

\* The client reads the response of its request.
Deliver ==
  /\ ~Delivered
  /\ resp' = Resp("none", 0, "")
  /\ UNCHANGED <<quotes, orders, designStatus, nextQuoteId, nextOrderId, reqs,
                 elsewhere>>

\* ------------------------------------------------------------------ spec
\* The program: requests interleave between their steps.  The read requests
\* write nothing and their responses are not recorded here: they are left to the
\* runs with one request at a time.
Next ==
  \/ \E s \in Slots, u \in Users, d \in DesignRefs, data \in PlainCreatePayloads :
       CreatePerm(s, u, d, data)
  \/ \E s \in Slots : CreateCheck(s)
  \/ \E s \in Slots : CreateInsert(s)
  \/ \E s \in Slots, u \in Users, id \in QuoteIds, data \in PlainUpdatePayloads :
       UpdateLoad(s, u, id, data)
  \/ \E s \in Slots : UpdateSave(s)
  \/ \E s \in Slots : AcceptGuard(s)
  \/ \E s \in Slots : AcceptBody(s)
  \/ \E s \in Slots, u \in Users, id \in QuoteIds : DeleteLoad(s, u, id)
  \/ \E s \in Slots : DeleteRow(s)

Spec == Init /\ [][Next]_vars

\* Requests one at a time: every request runs to its response, and the client
\* reads it, before the next one begins (one slot), with every payload.
NextSeq ==
  \/ \E u \in Users, d \in DesignRefs, data \in CreatePayloads :
       CreatePerm(1, u, d, data)
  \/ CreateCheck(1)
  \/ CreateInsert(1)
  \/ \E u \in Users, id \in QuoteIds, data \in UpdatePayloads :
       UpdateLoad(1, u, id, data)
  \/ UpdateSave(1)
  \/ AcceptGuard(1)
  \/ AcceptBody(1)
  \/ \E u \in Users, id \in QuoteIds : DeleteLoad(1, u, id)
  \/ DeleteRow(1)
  \/ \E u \in Users, d \in DesignRefs : ListQuotes(1, u, d)
  \/ \E u \in Users, id \in QuoteIds : Retrieve(1, u, id)
  \/ Deliver

SpecSeq == InitSeq /\ [][NextSeq]_vars

\* The PATCH bodies of the runs below: the acceptance, and new details.
DetailUpdatePayloads ==
  {data \in UpdatePayloads :
     /\ ~data.extra
     /\ \/ data.status = ACCEPTED /\ data.price = {}
        \/ data.status = Absent /\ data.price # {}}

\* The requests on the quotes of design d1 by its owner, one manufacturer and
\* staff, interleaved between their steps, detail updates included.
NextDetails ==
  \/ \E s \in Slots, data \in PlainCreatePayloads :
       CreatePerm(s, "m1", "d1", data)
  \/ \E s \in Slots : CreateCheck(s)
  \/ \E s \in Slots : CreateInsert(s)
  \/ \E s \in Slots, u \in {"c1", "m1", "adm"}, id \in QuoteIds,
        data \in DetailUpdatePayloads :
       UpdateLoad(s, u, id, data)
  \/ \E s \in Slots : UpdateSave(s)
  \/ \E s \in Slots : AcceptGuard(s)
  \/ \E s \in Slots : AcceptBody(s)
  \/ \E s \in Slots, u \in {"c1", "m1", "adm"}, id \in QuoteIds :
       DeleteLoad(s, u, id)
  \/ \E s \in Slots : DeleteRow(s)

SpecDetails == Init /\ [][NextDetails]_vars

\* --------------------------------------------------------------- pricing
\* quotes/pricing.py.  Decimal amounts are exact integers here: dollar amounts
\* of the factors in whole dollars, the markup factor in hundredths, sums before
\* the markup in thousandths of a dollar, the product with the markup in
\* hundred-thousandths, the final price in cents.

\* design.material, and the one material the manufacturer has properties for.
Materials == {"PLA", "ABS"}
KnownMaterial == "PLA"

Volumes == {0, 1, 100}          \* geometric_data["volume_cm3"]
Complexities == {0, 3}          \* geometric_data["complexity_score"]
Densities == {0, 1, 2}          \* density_g_cm3
UnitCosts == {-1, 5, 10}        \* cost_usd_kg
BaseCosts == {-1, 5}            \* base_time_cost_unit
Multipliers == {-1, 2}          \* time_multiplier_complexity_cost_unit
Markups == {0, 100, 150}        \* markup_factor, in hundredths

\* pricing_factors["estimated_lead_time_base_days"]: missing, an int, a float
\* or a bool (a bool is an instance of int in Python, True = 1).
LeadBases ==
  {[kind |-> "missing", val |-> 0], [kind |-> "int", val |-> -1],
   [kind |-> "int", val |-> 0], [kind |-> "int", val |-> 10],
   [kind |-> "float", val |-> 10], [kind |-> "bool", val |-> 1]}

\* The arguments of a call: the design and the manufacturer profile.
PricingDesigns ==
  [geometric_data : BOOLEAN, volume_cm3 : Volumes,
   complexity_score : Complexities, material : Materials]

PricingManufacturers ==
  [density_g_cm3 : Densities, cost_usd_kg : UnitCosts,
   base_time_cost_unit : BaseCosts,
   time_multiplier_complexity_cost_unit : Multipliers,
   markup_factor : Markups, estimated_lead_time_base_days : LeadBases]

\* The default lead time.
DefaultLeadDays == 7

\* PricingDetails(price_usd, estimated_lead_time_days, calculation_details,
\* errors); None is the empty set, calculation_details is the set of its keys.
PricingDetails(price_usd, estimated_lead_time_days, calculation_details, errors) ==
  [price_usd |-> price_usd, estimated_lead_time_days |-> estimated_lead_time_days,
   calculation_details |-> calculation_details, errors |-> errors]

\* An error message: what it reports, and the material name it quotes ("" when
\* the message quotes none).
Err(msg, material) == [msg |-> msg, material |-> material]

\* Variant: a message is appended only to an empty list.
AppendIf_FirstOnly(errors, test, msg) ==
  IF test /\ errors = <<>> THEN Append(errors, msg) ELSE errors

\* Variant: the message is never appended.
AppendIf_Never(errors, test, msg) == errors

\* errors.append(msg) when the test holds.
AppendIf(errors, test, msg) == IF test THEN Append(errors, msg) ELSE errors

\* Variant: the digits beyond the unit are dropped.
quantize_Truncate(n, unit) ==
  IF n >= 0 THEN n \div unit ELSE -((-n) \div unit)

\* Decimal.quantize(..., ROUND_HALF_UP) of n units-th: to the nearest whole,
\* halves away from zero.
quantize(n, unit) ==
  IF n >= 0 THEN (2 * n + unit) \div (2 * unit)
  ELSE -((2 * (-n) + unit) \div (2 * unit))

\* calculate_quote_price(design, manufacturer)
calculate_quote_price(design, manufacturer) ==
  IF ~design.geometric_data
  THEN PricingDetails({}, {}, {}, <<Err("geometric_data", "")>>)
  ELSE
    LET volume_cm3 == design.volume_cm3
        complexity_score == design.complexity_score
        design_material_name == design.material
        errors1 == AppendIf(<<>>, volume_cm3 <= 0, Err("volume", ""))
        known == design_material_name = KnownMaterial
        density_g_cm3 == manufacturer.density_g_cm3
        cost_usd_kg == manufacturer.cost_usd_kg
        errors2 ==
          IF known
          THEN AppendIf(AppendIf(errors1, density_g_cm3 <= 0,
                                 Err("density", design_material_name)),
                        cost_usd_kg < 0, Err("cost", design_material_name))
          ELSE Append(errors1, Err("material", design_material_name))
        material_done == known /\ errors2 = <<>>
        \* thousandths of a dollar
        material_cost ==
          IF material_done THEN volume_cm3 * density_g_cm3 * cost_usd_kg ELSE 0
        base_time_cost_unit == manufacturer.base_time_cost_unit
        time_multiplier == manufacturer.time_multiplier_complexity_cost_unit
        errors3 ==
          AppendIf(AppendIf(errors2, base_time_cost_unit < 0,
                            Err("base_time", "")),
                   time_multiplier < 0, Err("time_multiplier", ""))
        machine_done == errors3 = <<>>
        machine_time_cost ==
          IF machine_done
          THEN (base_time_cost_unit + complexity_score * time_multiplier) * 1000
          ELSE 0
        total_price_before_markup == material_cost + machine_time_cost
        manufacturer_markup == manufacturer.markup_factor
        errors == AppendIf(errors3, manufacturer_markup <= 0, Err("markup", ""))
        total_price == total_price_before_markup * manufacturer_markup
        final_price_usd ==
          IF errors = <<>> THEN {quantize(total_price, 1000)} ELSE {}
        base_days == manufacturer.estimated_lead_time_base_days
        estimated_lead_time_days ==
          IF base_days.kind = "missing" THEN DefaultLeadDays
          ELSE IF base_days.kind \notin {"int", "bool"} \/ base_days.val < 0
          THEN DefaultLeadDays
          ELSE base_days.val
        calculation_details ==
          (IF material_done THEN {"calculated_material_cost_usd"} ELSE {})
          \cup (IF machine_done THEN {"calculated_machine_time_cost_units"} ELSE {})
          \cup {"total_price_before_markup_usd"}
          \cup (IF errors = <<>> THEN {"final_total_price_usd"} ELSE {})
          \cup {"estimated_lead_time_days"}
    IN  IF errors # <<>>
        THEN PricingDetails({}, {}, calculation_details, errors)
        ELSE PricingDetails(final_price_usd, {estimated_lead_time_days},
                            calculation_details, <<>>)

\* A caller has a design and a manufacturer profile to price.
InitPricing ==
  /\ quotes = {}
  /\ orders = {}
  /\ designStatus = [d \in Designs |-> ANALYSIS_COMPLETE]
  /\ nextQuoteId = 1
  /\ nextOrderId = 1
  /\ reqs = [s \in Slots |-> IdleSlot]
  /\ resp = Unobserved
  /\ reviews = {}
  /\ nextReviewId = 1
  /\ pricing \in [called : {FALSE}, design : PricingDesigns,
                   manufacturer : PricingManufacturers]

\* The call: the function reads its arguments and returns its result.
Price ==
  /\ ~pricing.called
  /\ pricing' = [called |-> TRUE, design |-> pricing.design,
                 manufacturer |-> pricing.manufacturer,
                 result |-> calculate_quote_price(pricing.design,
                                                  pricing.manufacturer)]
  /\ UNCHANGED <<lifecycle, resp, reviews, nextReviewId>>

NextPricing == Price

\* The pricing function applied to every design and profile of the bounded sets.
SpecPricing == InitPricing /\ [][NextPricing]_vars

\* --------------------------------------------------------------- reviews
\* reviews/views.py.  A review request is one action here: its reads and its
\* write are not interleaved with the steps of another request, and the client
\* reads the response before it sends the next request.

\* A request without credentials.
Anonymous == "anon"

Actors == Accounts \cup {Anonymous}

\* order_id of a review: NULL, or the id of an order.
NoOrder == "none"
OrderRefs == {"o1", "o2"}

\* rating of a payload; the serializer takes 1 to 5.
Ratings == {0, 4, 5}
ValidRatings == {r \in Ratings : 1 <= r /\ r <= 5}

ReviewIds == 1 .. MaxReviews

\* POST bodies: rating, and order_id or none (the comment is left out).  Reviews
\* are created with the lower valid rating, or an invalid one.
ReviewCreatePayloads == [rating : {0, 4}, order_id : OrderRefs \cup {NoOrder}]

\* PATCH bodies: a rating, the higher valid one or an invalid one.
ReviewUpdatePayloads == [rating : {0, 5}]

ReviewById(id) == CHOOSE r \in reviews : r.id = id

\* The status of a denial: a request without credentials is answered 401 or 403,
\* by the authentication scheme of the deployment.
DeniedCodes(user) == IF user = Anonymous THEN {401, 403} ELSE {403}

\* IsAuthenticated, then CanCreateReviewForManufacturer.has_permission: "ok" or
\* the reason of the denial.
CanCreateReviewForManufacturer(user, manufacturer_id) ==
  IF user = Anonymous THEN "not_authenticated"
  ELSE IF role[user] # "customer" THEN "not_customer"
  ELSE IF role[manufacturer_id] # "manufacturer" THEN "manufacturer_not_found"
  ELSE "ok"

\* Variant: the order reference is not part of the lookup.
existing_review_query_AnyOrder(user, manufacturer, order_id) ==
  {r \in reviews : r.customer = user /\ r.manufacturer = manufacturer}

\* perform_create's lookup: the reviews of this customer for this manufacturer
\* with this order id, or with none when the payload has none.
existing_review_query(user, manufacturer, order_id) ==
  IF order_id # NoOrder
  THEN {r \in reviews : /\ r.customer = user /\ r.manufacturer = manufacturer
                        /\ r.order_id = order_id}
  ELSE {r \in reviews : /\ r.customer = user /\ r.manufacturer = manufacturer
                        /\ r.order_id = NoOrder}

\* serializer.save(customer=request.user, manufacturer=manufacturer)
NewReview(id, data, user, manufacturer) ==
  [id |-> id, customer |-> user, manufacturer |-> manufacturer,
   rating |-> data.rating, order_id |-> data.order_id]

\* POST /manufacturers/{manufacturer_id}/reviews
ReviewCreate(user, manufacturer_id, data) ==
  /\ Delivered
  /\ LET why == CanCreateReviewForManufacturer(user, manufacturer_id)
     IN  IF why # "ok"
         THEN /\ \E code \in DeniedCodes(user) :
                   resp' = Resp("review_create", code, why)
              /\ UNCHANGED <<reviews, nextReviewId>>
         ELSE IF data.rating \notin ValidRatings
         THEN /\ resp' = Resp("review_create", 400, "invalid")
              /\ UNCHANGED <<reviews, nextReviewId>>
         ELSE IF existing_review_query(user, manufacturer_id, data.order_id) # {}
         THEN /\ resp' = Resp("review_create", 400, "duplicate")
              /\ UNCHANGED <<reviews, nextReviewId>>
         ELSE /\ nextReviewId <= MaxReviews
              /\ reviews' = reviews \cup
                   {NewReview(nextReviewId, data, user, manufacturer_id)}
              /\ nextReviewId' = nextReviewId + 1
              /\ resp' = Resp("review_create", 201, "created")
  /\ UNCHANGED <<lifecycle, pricing>>

\* GET /manufacturers/{manufacturer_id}/reviews: public.
ReviewList(user, manufacturer_id) ==
  /\ Delivered
  /\ IF role[manufacturer_id] # "manufacturer"
     THEN resp' = Resp("review_list", 404, "manufacturer_not_found")
     ELSE resp' = RespWith("review_list", 200, "listed",
                           {r \in reviews : r.manufacturer = manufacturer_id})
  /\ UNCHANGED <<lifecycle, elsewhere>>

SAFE_METHODS == {"GET", "HEAD", "OPTIONS"}

\* Variant: every request may write.
IsReviewOwnerOrReadOnly_Anyone(method, user, obj) == TRUE

\* IsReviewOwnerOrReadOnly.has_object_permission
IsReviewOwnerOrReadOnly(method, user, obj) ==
  IF method \in SAFE_METHODS THEN TRUE
  ELSE IF user = Anonymous THEN FALSE
  ELSE is_staff[user] \/ obj.customer = user

\* GET /reviews/{id}
ReviewRetrieve(user, id) ==
  /\ Delivered
  /\ IF id \notin IdsOf(reviews)
     THEN resp' = Resp("review_retrieve", 404, "not_found")
     ELSE LET obj == ReviewById(id)
          IN  IF ~IsReviewOwnerOrReadOnly("GET", user, obj)
              THEN \E code \in DeniedCodes(user) :
                     resp' = Resp("review_retrieve", code, "not_owner")
              ELSE resp' = RespWith("review_retrieve", 200, "retrieved", {obj})
  /\ UNCHANGED <<lifecycle, elsewhere>>

\* PATCH /reviews/{id}
ReviewUpdate(user, id, data) ==
  /\ Delivered
  /\ IF id \notin IdsOf(reviews)
     THEN /\ resp' = Resp("review_update", 404, "not_found")
          /\ UNCHANGED reviews
     ELSE LET obj == ReviewById(id)
          IN  IF ~IsReviewOwnerOrReadOnly("PATCH", user, obj)
              THEN /\ \E code \in DeniedCodes(user) :
                        resp' = Resp("review_update", code, "not_owner")
                   /\ UNCHANGED reviews
              ELSE IF data.rating \notin ValidRatings
              THEN /\ resp' = Resp("review_update", 400, "invalid")
                   /\ UNCHANGED reviews
              ELSE /\ reviews' = (reviews \ {obj})
                                    \cup {[obj EXCEPT !.rating = data.rating]}
                   /\ resp' = Resp("review_update", 200, "updated")
  /\ UNCHANGED <<lifecycle, pricing, nextReviewId>>

\* DELETE /reviews/{id}
ReviewDelete(user, id) ==
  /\ Delivered
  /\ IF id \notin IdsOf(reviews)
     THEN /\ resp' = Resp("review_delete", 404, "not_found")
          /\ UNCHANGED reviews
     ELSE LET obj == ReviewById(id)
          IN  IF ~IsReviewOwnerOrReadOnly("DELETE", user, obj)
              THEN /\ \E code \in DeniedCodes(user) :
                        resp' = Resp("review_delete", code, "not_owner")
                   /\ UNCHANGED reviews
              ELSE /\ reviews' = reviews \ {obj}
                   /\ resp' = Resp("review_delete", 204, "deleted")
  /\ UNCHANGED <<lifecycle, pricing, nextReviewId>>

\* The database of the review requests: users, no review; responses recorded.
InitReviews ==
  /\ quotes = {}
  /\ orders = {}
  /\ designStatus = [d \in Designs |-> ANALYSIS_COMPLETE]
  /\ nextQuoteId = 1
  /\ nextOrderId = 1
  /\ reqs = [s \in Slots |-> IdleSlot]
  /\ pricing = NoPricing
  /\ reviews = {}
  /\ nextReviewId = 1
  /\ resp = Resp("none", 0, "")

NextReviews ==
  \/ \E u \in Actors, m \in Accounts, data \in ReviewCreatePayloads :
       ReviewCreate(u, m, data)
  \/ \E u \in Actors, m \in Accounts : ReviewList(u, m)
  \/ \E u \in Actors, id \in ReviewIds : ReviewRetrieve(u, id)
  \/ \E u \in Actors, id \in ReviewIds, data \in ReviewUpdatePayloads :
       ReviewUpdate(u, id, data)
  \/ \E u \in Actors, id \in ReviewIds : ReviewDelete(u, id)
  \/ Deliver

\* The review requests, one at a time.
SpecReviews == InitReviews /\ [][NextReviews]_vars

\* ---------------------------------------------------------------- claims
\* The step of slot s that commits the acceptance block (an order is created).
AcceptCommitted(s) ==
  reqs[s].pc = "body" /\ reqs'[s].pc = "idle" /\ orders' # orders

OrdersOf(O, id) == {o \in O : o.accepted_quote = id}

\* C1: with requests one at a time, when the acceptance of quote Q completes with
\* its side effects applied, Q is accepted and exactly one order is linked to Q,
\* with Q's design, the design's owner as customer, Q's manufacturer, Q's price
\* as total and status pending_payment.
C1_AcceptCreatesOrder ==
  [][\A s \in Slots :
       AcceptCommitted(s) =>
         \E q \in quotes' :
           /\ q.id = reqs[s].inst.id
           /\ q.status = ACCEPTED
           /\ Cardinality(OrdersOf(orders', q.id)) = 1
           /\ \A o \in OrdersOf(orders', q.id) :
                /\ o.design = q.design
                /\ o.customer = customer[q.design]
                /\ o.manufacturer = q.manufacturer
                /\ o.total = q.price
                /\ o.status = "pending_payment"]_vars

\* An acceptance answered as applied, of a quote whose price was changed before.
C1_Witness ==
  /\ resp = Resp("update", 200, "accepted")
  /\ \E q \in quotes, o \in orders :
       o.accepted_quote = q.id /\ q.status = ACCEPTED /\ q.price = 150

\* C2: when the acceptance block of quote Q commits, every other quote of Q's
\* design that was pending is rejected, and no quote of that design other than Q
\* is pending.
C2_SiblingsRejected ==
  [][\A s \in Slots :
       AcceptCommitted(s) =>
         LET Q == reqs[s].inst
         IN  /\ \A q \in quotes :
                  (q.design = Q.design /\ q.id # Q.id /\ q.status = PENDING)
                    => [q EXCEPT !.status = REJECTED] \in quotes'
             /\ \A q \in quotes' :
                  (q.design = Q.design /\ q.id # Q.id) => q.status # PENDING]_vars

\* A quote with an order and a rejected quote of another manufacturer for the
\* same design.
C2_Witness ==
  \E o \in orders, q \in quotes :
    /\ q.design = o.design /\ q.id # o.accepted_quote
    /\ q.status = REJECTED
    /\ \E a \in quotes : a.id = o.accepted_quote /\ a.status = ACCEPTED

\* C3: when the acceptance block of quote Q commits, Q's design is ordered.
C3_DesignOrdered ==
  [][\A s \in Slots :
       AcceptCommitted(s) => designStatus'[reqs[s].inst.design] = ORDERED]_vars

\* An order exists and its design is ordered.
C3_Witness ==
  \E o \in orders : designStatus[o.design] = ORDERED

\* C4: at most one order per design exists in every reachable state, whatever
\* the interleaving of two acceptance requests on two quotes of the design.
C4_OneOrderPerDesign ==
  \A o1, o2 \in orders : o1.design = o2.design => o1 = o2

\* C5: at most one order is linked to a quote, in every reachable state.
C5_OneOrderPerQuote ==
  \A o1, o2 \in orders : o1.accepted_quote = o2.accepted_quote => o1 = o2

\* An acceptance has passed its guard and the order of its quote exists by now.
C5_Witness ==
  \E s \in Slots :
    /\ reqs[s].pc = "body"
    /\ \E o \in orders : o.accepted_quote = reqs[s].inst.id

\* C6: at most one quote exists per (design, manufacturer) pair in every
\* reachable state, whatever the interleaving of the create requests.
C6_OneQuotePerPair ==
  \A q1, q2 \in quotes :
    (q1.design = q2.design /\ q1.manufacturer = q2.manufacturer) => q1 = q2

\* A step of slot 1 that can be the first step of a create request: from idle
\* to the duplicate check, or to an answer to a create request.
CreateStep ==
  /\ reqs[1].pc = "idle"
  /\ \/ reqs'[1].pc = "check"
     \/ reqs'[1].pc = "idle" /\ resp'.op = "create"

\* The step is the first step of a create request of u for design d with a
\* payload that carries the required fields.
ValidCreateBy(u, d) ==
  \E data \in CreatePayloads :
    data.price # {} /\ data.lead # {} /\ CreatePerm(1, u, d, data)

\* The step is the first step of a create request of u for design d.
CreateBy(u, d) == \E data \in CreatePayloads : CreatePerm(1, u, d, data)

HasQuoteFor(d, u) == \E q \in quotes : q.design = d /\ q.manufacturer = u

\* C7, as stated: a create request (valid payload, requests one at a time) of a
\* manufacturer who has a quote for the design is answered by the duplicate
\* check (400, already submitted), so it gets as far as that check.
C7_Original ==
  [][CreateStep =>
       \A u \in Users, d \in Designs :
         (HasQuoteFor(d, u) /\ reqs'[1].pc # "check") => ~ValidCreateBy(u, d)]_vars

\* C7, amended: such a request never changes the quotes; while the design is
\* analysis complete it reaches the duplicate check, which answers 400, already
\* submitted; otherwise the create policy denies it with 403.
C7_DuplicateRejected ==
  [][/\ CreateStep =>
          \A u \in Users, d \in Designs :
            (/\ HasQuoteFor(d, u)
             /\ ~(/\ quotes' = quotes
                  /\ IF designStatus[d] = ANALYSIS_COMPLETE
                     THEN reqs'[1].pc = "check"
                     ELSE /\ reqs'[1].pc = "idle"
                          /\ resp'.op = "create" /\ resp'.code = 403))
            => ~ValidCreateBy(u, d)
     /\ (reqs[1].pc = "check"
         /\ HasQuoteFor(reqs[1].inst.design, reqs[1].inst.manufacturer))
        => /\ quotes' = quotes
           /\ reqs'[1].pc = "idle"
           /\ resp' = Resp("create", 400, "duplicate")]_vars

\* A create request was answered 400, already submitted, for a manufacturer whose
\* quote is no longer pending.
C7_Witness ==
  /\ resp = Resp("create", 400, "duplicate")
  /\ \E q \in quotes : q.status # PENDING /\ designStatus[q.design] = ANALYSIS_COMPLETE

\* C8: a create request of a manufacturer for a design whose status is not
\* analysis complete is denied with 403 and creates no quote.
C8_NotAnalysedDenied ==
  [][CreateStep =>
       \A u \in Users, d \in Designs :
         (/\ role[u] = "manufacturer"
          /\ designStatus[d] # ANALYSIS_COMPLETE
          /\ ~(/\ resp'.op = "create" /\ resp'.code = 403
               /\ reqs'[1].pc = "idle"
               /\ quotes' = quotes))
         => ~CreateBy(u, d)]_vars

\* A create request was denied for the status of its design.
C8_Witness ==
  /\ resp = Resp("create", 403, "design_status")
  /\ \E d \in Designs : designStatus[d] # ANALYSIS_COMPLETE

\* C9: a create request of a manufacturer for a design they own is denied with
\* the own-design reason, whatever the status of the design, and creates no quote.
C9_OwnDesignDenied ==
  [][CreateStep =>
       \A u \in Users, d \in Designs :
         (/\ role[u] = "manufacturer"
          /\ customer[d] = u
          /\ ~(/\ resp' = Resp("create", 403, "own_design")
               /\ reqs'[1].pc = "idle"
               /\ quotes' = quotes))
         => ~CreateBy(u, d)]_vars

\* A create request was denied for the ownership of a design that is not
\* analysis complete.
C9_Witness ==
  /\ resp = Resp("create", 403, "own_design")
  /\ \E d \in Designs :
       role[customer[d]] = "manufacturer" /\ designStatus[d] # ANALYSIS_COMPLETE

\* C10: the quote a create request persists has status pending, the requesting
\* actor as manufacturer and the design of the route, whatever the payload.
C10_CreatedPendingForActor ==
  [][/\ (reqs[1].pc = "idle" /\ reqs'[1].pc = "check") =>
          \A u \in Users, d \in Designs :
            CreateBy(u, d) => /\ reqs'[1].inst.manufacturer = u
                              /\ reqs'[1].inst.design = d
     /\ (reqs[1].pc = "insert" /\ reqs'[1].pc = "idle")
        => \E q \in quotes' :
             /\ q.id \notin {x.id : x \in quotes}
             /\ quotes' = quotes \cup {q}
             /\ q.manufacturer = reqs[1].inst.manufacturer
             /\ q.design = reqs[1].inst.design
             /\ q.status = PENDING]_vars

\* A step of slot 1 that can be the first step of an update request: from idle
\* to the save, or to an answer to an update request.
UpdateStep ==
  /\ reqs[1].pc = "idle"
  /\ \/ reqs'[1].pc = "save"
     \/ reqs'[1].pc = "idle" /\ resp'.op = "update"

\* The step answers an update request with 403 and changes nothing.
UpdateDenied ==
  /\ resp'.op = "update" /\ resp'.code = 403
  /\ reqs'[1].pc = "idle"
  /\ quotes' = quotes /\ orders' = orders /\ designStatus' = designStatus

\* C11: an update request of the design owner that carries a status is denied
\* with 403, the quote unchanged, unless the quote is pending and the requested
\* status is accepted or rejected; so the owner's status change is let through
\* only from pending to accepted or rejected.
C11_CustomerStatusRule ==
  [][(UpdateStep /\ ~UpdateDenied) =>
       \A q \in quotes, data \in UpdatePayloads :
         (/\ data.status # Absent
          /\ ~(q.status = PENDING /\ data.status \in {ACCEPTED, REJECTED}))
         => ~UpdateLoad(1, customer[q.design], q.id, data)]_vars

\* The design owner's status request was denied for its transition while no
\* quote is pending: the denied request was on a non-pending quote.
C11_Witness ==
  /\ resp = Resp("update", 403, "customer_transition")
  /\ quotes # {}
  /\ \A q \in quotes : q.status # PENDING

\* C12: an update request of the quote's manufacturer that asks for accepted or
\* rejected, or for any change of status other than pending to expired, is denied
\* with 403 and the quote is unchanged.
C12_ManufacturerStatusRule ==
  [][(UpdateStep /\ ~UpdateDenied) =>
       \A q \in quotes, data \in UpdatePayloads :
         (/\ data.status # Absent
          /\ \/ data.status \in {ACCEPTED, REJECTED}
             \/ /\ data.status # q.status
                /\ ~(q.status = PENDING /\ data.status = EXPIRED))
         => ~UpdateLoad(1, q.manufacturer, q.id, data)]_vars

\* The manufacturer's status request on a quote was denied for its transition
\* while every quote is pending.
C12_Witness ==
  /\ resp = Resp("update", 403, "manufacturer_transition")
  /\ quotes # {}
  /\ \A q \in quotes : q.status = PENDING

\* The instance an update request holds after its fields were set.
Updated(q, data) ==
  [q EXCEPT !.price = IF data.price # {} THEN CHOOSE p \in data.price : TRUE ELSE @,
            !.lead = IF data.lead # {} THEN CHOOSE l \in data.lead : TRUE ELSE @]

\* C13: for an actor who is not staff, an update request that carries detail
\* fields and no status goes on to save the new details exactly when the actor is
\* the quote's manufacturer and the quote is pending, and is denied with 403
\* otherwise; a save that is not an acceptance writes the instance and answers 200.
C13_DetailsByManufacturerWhilePending ==
  [][/\ UpdateStep =>
          \A q \in quotes, u \in Users, data \in UpdatePayloads :
            (/\ ~is_staff[u]
             /\ data.status = Absent /\ data.price # {}
             /\ ~(IF u = q.manufacturer /\ q.status = PENDING
                  THEN /\ reqs'[1].pc = "save"
                       /\ reqs'[1].inst = Updated(q, data)
                       /\ ~reqs'[1].edge
                       /\ quotes' = quotes
                  ELSE UpdateDenied))
            => ~UpdateLoad(1, u, q.id, data)
     /\ (reqs[1].pc = "save" /\ ~reqs[1].edge)
        => /\ reqs[1].inst \in quotes'
           /\ resp' = Resp("update", 200, "updated")
           /\ reqs'[1].pc = "idle"]_vars

\* A details update was applied: a pending quote carries the new price and lead
\* time.
C13_Witness ==
  /\ resp = Resp("update", 200, "updated")
  /\ \E q \in quotes : q.status = PENDING /\ q.price = 150 /\ q.lead = 3

\* The PATCH body that carries the status st and nothing else.
StatusOnly(st) ==
  [status |-> st, price |-> {}, lead |-> {}, notes |-> Absent, extra |-> FALSE]

\* C14: an update request of the design owner or of the manufacturer that carries
\* a status together with detail fields passes the update policy exactly when the
\* request with that status alone, by the same actor on the same quote, passes it.
C14_MixedFollowsStatusRule ==
  [][UpdateStep =>
       \A q \in quotes, u \in Users, data \in UpdatePayloads :
         (/\ u \in {q.manufacturer, customer[q.design]}
          /\ data.status # Absent /\ data.price # {} /\ ~data.extra
          /\ UpdateLoad(1, u, q.id, data))
         => (~UpdateDenied <=> CanUpdateQuote(u, q, StatusOnly(data.status)) = "ok")]_vars

\* The step answers a request with 403 for operation op and changes nothing.
Denied(op) ==
  /\ resp'.op = op /\ resp'.code = 403
  /\ reqs' = reqs
  /\ quotes' = quotes /\ orders' = orders /\ designStatus' = designStatus

\* A step of slot 1 that can be a retrieve request.
RetrieveStep == reqs[1].pc = "idle" /\ resp'.op = "retrieve"

\* A step of slot 1 that can be the first step of a delete request: from idle to
\* the removal, or to an answer to a delete request.
DeleteStep ==
  /\ reqs[1].pc = "idle"
  /\ \/ reqs'[1].pc = "destroy"
     \/ reqs'[1].pc = "idle" /\ resp'.op = "delete"

\* The actor is neither staff, nor the quote's manufacturer, nor the owner of its
\* design.
ThirdParty(u, q) ==
  ~is_staff[u] /\ u # q.manufacturer /\ u # customer[q.design]

\* C15: a retrieve, update or delete request on a quote by an actor who is
\* neither the owner of its design, nor its manufacturer, nor staff is denied with
\* 403, and quotes, orders and design status are unchanged.
C15_ThirdPartyDenied ==
  [][\A q \in quotes, u \in Users :
       ThirdParty(u, q) =>
         /\ (RetrieveStep /\ ~Denied("retrieve")) => ~Retrieve(1, u, q.id)
         /\ (DeleteStep /\ ~Denied("delete")) => ~DeleteLoad(1, u, q.id)
         /\ (UpdateStep /\ ~Denied("update")) =>
              \A data \in UpdatePayloads : ~UpdateLoad(1, u, q.id, data)]_vars

\* An update request was denied to an actor who is not involved, while the
\* quotes are all pending.
C15_Witness ==
  /\ resp = Resp("update", 403, "not_involved")
  /\ quotes # {}
  /\ \A q \in quotes : q.status = PENDING

\* C16: a delete request on a quote goes on to remove it exactly when the actor
\* is staff, or is the quote's manufacturer and the quote is pending; otherwise
\* it is denied with 403 and the quote still exists.  The removal takes away the
\* targeted quote and answers 204.
C16_DeleteRule ==
  [][/\ DeleteStep =>
          \A q \in quotes, u \in Users :
            ~(IF is_staff[u] \/ (u = q.manufacturer /\ q.status = PENDING)
              THEN /\ reqs'[1].pc = "destroy" /\ reqs'[1].inst = q
                   /\ quotes' = quotes
              ELSE Denied("delete") /\ q \in quotes')
            => ~DeleteLoad(1, u, q.id)
     /\ reqs[1].pc = "destroy"
        => /\ quotes' = {q \in quotes : q.id # reqs[1].inst.id}
           /\ resp' = Resp("delete", 204, "deleted")
           /\ reqs'[1].pc = "idle"]_vars

\* A delete request was denied by perform_destroy while no quote is pending: the
\* actor was the manufacturer of a non-pending quote, or the design owner.
C16_Witness ==
  /\ resp = Resp("delete", 403, "not_pending_own")
  /\ quotes # {}
  /\ \A q \in quotes : q.status # PENDING

QuotesOfDesign(d) == {q \in quotes : q.design = d}

\* C17, as stated: the listing shows all quotes of the design to staff and to the
\* design owner, their own quotes to a manufacturer, nothing to anyone else; and a
\* manufacturer is never shown a quote of another manufacturer.
C17_Original ==
  [][(reqs[1].pc = "idle" /\ resp'.op = "list") =>
       \A u \in Users, d \in Designs :
         ListQuotes(1, u, d) =>
           /\ resp'.code = 200
           /\ (is_staff[u] \/ customer[d] = u) => resp'.rows = QuotesOfDesign(d)
           /\ role[u] = "manufacturer" =>
                \A r \in resp'.rows : r.manufacturer = u
           /\ (~is_staff[u] /\ customer[d] # u) =>
                resp'.rows = IF role[u] = "manufacturer"
                             THEN {q \in QuotesOfDesign(d) : q.manufacturer = u}
                             ELSE {}]_vars

\* C17, amended: the listing answers 200 and shows all quotes of the design to
\* staff and to the design owner (who may hold the manufacturer role), their own
\* quotes of the design to a manufacturer who does not own it, nothing to anyone
\* else; a manufacturer who does not own the design is never shown a quote of
\* another manufacturer.
C17_ListVisibility ==
  [][(reqs[1].pc = "idle" /\ resp'.op = "list") =>
       \A u \in Users, d \in Designs :
         ListQuotes(1, u, d) =>
           /\ resp'.code = 200
           /\ (is_staff[u] \/ customer[d] = u) => resp'.rows = QuotesOfDesign(d)
           /\ (~is_staff[u] /\ customer[d] # u) =>
                resp'.rows = IF role[u] = "manufacturer"
                             THEN {q \in QuotesOfDesign(d) : q.manufacturer = u}
                             ELSE {}]_vars

\* A listing showed one quote of a design that has quotes of two manufacturers:
\* the actor was one of the two.
C17_Witness ==
  /\ resp.op = "list"
  /\ \E q1, q2 \in quotes :
       /\ q1.design = q2.design /\ q1.manufacturer # q2.manufacturer
       /\ resp.rows = {q1}

\* C18: an accepted quote keeps its status, price, lead time and notes as long as
\* it exists, whoever sends update requests.
C18_AcceptedImmutable ==
  [][\A q \in quotes :
       q.status = ACCEPTED => \A r \in quotes' : r.id = q.id => r = q]_vars

\* C19: the order created when the acceptance block commits has as estimated
\* delivery date its creation date plus the lead time of the accepted quote, in
\* days.
C19_DeliveryDate ==
  [][\A s \in Slots :
       AcceptCommitted(s) =>
         \A o \in orders' \ orders :
           \E q \in quotes' :
             /\ q.id = o.accepted_quote /\ q.status = ACCEPTED
             /\ o.created_at \in Days
             /\ o.estimated_delivery_date = o.created_at + q.lead]_vars

\* An order of a quote with the shorter lead time, created on the second day.
C19_Witness ==
  \E o \in orders, q \in quotes :
    /\ q.id = o.accepted_quote /\ q.lead = 3 /\ q.status = ACCEPTED
    /\ o.created_at = 2 /\ o.estimated_delivery_date = 5

\* The arguments are valid: geometric data with a positive volume, a known
\* material with positive density and non-negative unit cost, non-negative base
\* and multiplier, positive markup.
ValidPricingInputs(design, manufacturer) ==
  /\ design.geometric_data /\ design.volume_cm3 > 0
  /\ design.material = KnownMaterial
  /\ manufacturer.density_g_cm3 > 0 /\ manufacturer.cost_usd_kg >= 0
  /\ manufacturer.base_time_cost_unit >= 0
  /\ manufacturer.time_multiplier_complexity_cost_unit >= 0
  /\ manufacturer.markup_factor > 0

\* (volume * density * unitCost / 1000 + base + complexity * multiplier) * markup,
\* in hundred-thousandths of a dollar.
ExactPrice(design, manufacturer) ==
  (design.volume_cm3 * manufacturer.density_g_cm3 * manufacturer.cost_usd_kg
   + 1000 * (manufacturer.base_time_cost_unit
             + design.complexity_score
               * manufacturer.time_multiplier_complexity_cost_unit))
  * manufacturer.markup_factor

\* The arguments of the worked example: volume 100, density 2, unit cost 10,
\* base 5, multiplier 2, complexity 3, markup 1.5.
ExampleInputs(design, manufacturer) ==
  /\ design.geometric_data /\ design.volume_cm3 = 100
  /\ design.complexity_score = 3 /\ design.material = KnownMaterial
  /\ manufacturer.density_g_cm3 = 2 /\ manufacturer.cost_usd_kg = 10
  /\ manufacturer.base_time_cost_unit = 5
  /\ manufacturer.time_multiplier_complexity_cost_unit = 2
  /\ manufacturer.markup_factor = 150

\* C20: for valid arguments the pricing function returns no error and the price
\* in cents nearest to the exact amount, a half rounded up; the worked example
\* gives 19.50.
C20_PriceFormula ==
  (pricing.called /\ ValidPricingInputs(pricing.design, pricing.manufacturer)) =>
    /\ pricing.result.errors = <<>>
    /\ \E p \in pricing.result.price_usd :
         /\ pricing.result.price_usd = {p}
         /\ 1000 * p - 500 <= ExactPrice(pricing.design, pricing.manufacturer)
         /\ ExactPrice(pricing.design, pricing.manufacturer) < 1000 * p + 500
    /\ ExampleInputs(pricing.design, pricing.manufacturer) =>
         pricing.result.price_usd = {1950}

\* The pricing function was called with valid arguments whose exact amount lies
\* halfway between two cents, and returned the upper one.
C20_Witness ==
  /\ pricing.called
  /\ ValidPricingInputs(pricing.design, pricing.manufacturer)
  /\ ExactPrice(pricing.design, pricing.manufacturer) % 1000 = 500
  /\ \E p \in pricing.result.price_usd :
       1000 * p = ExactPrice(pricing.design, pricing.manufacturer) + 500

\* The messages of an error list.
Messages(errors) == {errors[i] : i \in 1 .. Len(errors)}

C22_LeadTimeDefault ==
  (pricing.called /\ pricing.result.errors = <<>>) =>
    LET base_days == pricing.manufacturer.estimated_lead_time_base_days
    IN  pricing.result.estimated_lead_time_days =
          {IF base_days.kind = "int" /\ base_days.val >= 0
           THEN base_days.val ELSE DefaultLeadDays}

\* The reviews of customer u for manufacturer m with the order reference ref.
ReviewsFor(u, m, ref) ==
  {r \in reviews : r.customer = u /\ r.manufacturer = m /\ r.order_id = ref}

\* C23: a valid review creation by a customer for a manufacturer fails with 400
\* and adds no review when the customer has a review of that manufacturer with
\* the same order reference (the same order id, or none and none); otherwise, a
\* review with another order reference included, it is accepted with 201 and adds
\* exactly the new review.
C23_DuplicateReviewRejected ==
  [][resp'.op = "review_create" =>
       \A u, m \in Accounts, data \in ReviewCreatePayloads :
         (/\ role[u] = "customer" /\ role[m] = "manufacturer"
          /\ data.rating \in ValidRatings
          /\ ~(IF ReviewsFor(u, m, data.order_id) # {}
               THEN /\ resp'.code = 400
                    /\ reviews' = reviews
               ELSE /\ resp'.code = 201
                    /\ \E r \in reviews' :
                         /\ r.id \notin IdsOf(reviews)
                         /\ reviews' = reviews \cup {r}
                         /\ r.customer = u /\ r.manufacturer = m
                         /\ r.order_id = data.order_id))
         => ~ReviewCreate(u, m, data)]_vars

\* A creation was rejected as a duplicate while the customer holds two reviews of
\* one manufacturer, a general one and one for an order.
C23_Witness ==
  /\ resp = Resp("review_create", 400, "duplicate")
  /\ \E r1, r2 \in reviews :
       /\ r1.customer = r2.customer /\ r1.manufacturer = r2.manufacturer
       /\ r1.order_id = NoOrder /\ r2.order_id \in OrderRefs

\* The actor is authenticated and is neither staff nor the author of the review.
NotAuthorNorStaff(u, r) == u \in Accounts /\ ~is_staff[u] /\ u # r.customer

\* C24: an update or delete request on a review by an actor who is neither its
\* author nor staff is denied with 403 and leaves the reviews as they are; the
\* author's or staff's valid update is applied and their delete removes the
\* review; a retrieve request is answered with the review to any actor, with
\* or without credentials.
C24_ReviewOwnerOrReadOnly ==
  [][/\ resp'.op \in {"review_update", "review_delete"} =>
          \A r \in reviews, u \in Accounts :
            /\ ~(IF NotAuthorNorStaff(u, r)
                 THEN resp'.code = 403 /\ reviews' = reviews
                 ELSE /\ resp'.code = 204
                      /\ reviews' = reviews \ {r})
               => ~ReviewDelete(u, r.id)
            /\ \A data \in ReviewUpdatePayloads :
                 (/\ data.rating \in ValidRatings
                  /\ ~(IF NotAuthorNorStaff(u, r)
                       THEN resp'.code = 403 /\ reviews' = reviews
                       ELSE /\ resp'.code = 200
                            /\ reviews' = (reviews \ {r})
                                 \cup {[r EXCEPT !.rating = data.rating]}))
                 => ~ReviewUpdate(u, r.id, data)
     /\ resp'.op = "review_retrieve" =>
          \A r \in reviews, u \in Actors :
            ~(resp' = RespWith("review_retrieve", 200, "retrieved", {r})
              /\ reviews' = reviews)
            => ~ReviewRetrieve(u, r.id)]_vars

\* A delete request on a review was denied, and the review has the rating an
\* update gave it.
C24_Witness ==
  /\ resp = Resp("review_delete", 403, "not_owner")
  /\ \E r \in reviews : r.rating = 5

\* C25: in every reachable state, whatever the interleaving of the requests, the
\* design of every order is ordered and no other quote of that design is pending.
C25_AcceptanceAllOrNothing ==
  \A o \in orders :
    /\ designStatus[o.design] = ORDERED
    /\ \A q \in quotes :
         (q.design = o.design /\ q.id # o.accepted_quote) => q.status # PENDING

\* The step of slot s in which the acceptance block ends without an order: an
\* exception was raised in it.
AcceptFailed(s) ==
  reqs[s].pc = "body" /\ reqs'[s].pc = "idle" /\ orders' = orders

\* C26: with requests one at a time, when the acceptance block of an update fails,
\* it leaves no order, the design status and every quote as they were before the
\* block, the quote of the request is stored as accepted, and the request is
\* answered 200.
C26_FailedBlockRolledBack ==
  [][\A s \in Slots :
       AcceptFailed(s) =>
         /\ orders' = orders /\ ~HasOrder(reqs[s].inst.id)
         /\ designStatus' = designStatus
         /\ quotes' = quotes
         /\ \E q \in quotes' : q.id = reqs[s].inst.id /\ q.status = ACCEPTED
         /\ resp'.op = "update" /\ resp'.code = 200]_vars

\* An acceptance was answered after its block failed: the quote is accepted and
\* has no order, its design is not ordered and another quote of the design is
\* still pending.
C26_Witness ==
  /\ resp = Resp("update", 200, "side_effects_failed")
  /\ \E q, p \in quotes :
       /\ q.status = ACCEPTED /\ ~HasOrder(q.id)
       /\ designStatus[q.design] = ANALYSIS_COMPLETE
       /\ p.design = q.design /\ p.id # q.id /\ p.status = PENDING

\* The step answers a create, update or delete request with a denial (403) or a
\* validation error (400).
AnswersError ==
  /\ resp' # resp
  /\ resp'.op \in {"create", "update", "delete"}
  /\ resp'.code \in {400, 403}

\* C27: a create, update or delete request that is answered 403 or 400 has
\* written nothing: the step that answers changes no quote, no order and no design
\* status, and it is taken by a request that has not saved anything before (it
\* is at its first step, or at the duplicate check of a create request).
C27_ErrorLeavesStateUnchanged ==
  [][AnswersError =>
       /\ quotes' = quotes /\ orders' = orders /\ designStatus' = designStatus
       /\ nextQuoteId' = nextQuoteId /\ nextOrderId' = nextOrderId
       /\ reqs[1].pc \in {"idle", "check"}]_vars

\* An update request failed validation while a pending quote exists.
C27_Witness ==
  /\ resp.op = "update" /\ resp.code = 400
  /\ \E q \in quotes : q.status = PENDING

\* C28: in every reachable state no pending quote has an order linked to it.
C28_NoOrderForPendingQuote ==
  \A q \in quotes : q.status = PENDING => ~HasOrder(q.id)

\* C29: every stored quote has a manufacturer who holds the manufacturer role and
\* does not own the quote's design, after every step; and a create request of an
\* actor without the manufacturer role is denied with 403 and creates no quote,
\* whatever the design of the route and the payload.
C29_QuoteManufacturerRole ==
  [][/\ \A q \in quotes' :
          /\ role[q.manufacturer] = "manufacturer"
          /\ customer[q.design] # q.manufacturer
     /\ CreateStep =>
          \A u \in Users, d \in DesignRefs :
            (/\ role[u] # "manufacturer"
             /\ ~(/\ resp' = Resp("create", 403, "not_manufacturer")
                  /\ reqs'[1].pc = "idle"
                  /\ quotes' = quotes))
            => ~CreateBy(u, d)]_vars

\* A create request was denied for the role of its actor while a quote for a
\* design owned by a manufacturer is stored.
C29_Witness ==
  /\ resp = Resp("create", 403, "not_manufacturer")
  /\ \E q \in quotes : role[customer[q.design]] = "manufacturer"

\* C30: an update request runs the acceptance block exactly when it takes a quote
\* that is not accepted to accepted; an update to rejected or expired, or of the
\* details only, saves its own quote and creates no order, leaves the design
\* status and every other quote unchanged; and no step outside the block of
\* such an edge creates an order or changes a design status.
C30_SideEffectsOnlyOnAcceptEdge ==
  [][/\ (UpdateStep /\ reqs'[1].pc = "save") =>
          \A q \in quotes, u \in Users, data \in UpdatePayloads :
            (reqs'[1].edge # (q.status # ACCEPTED /\ data.status = ACCEPTED))
            => ~UpdateLoad(1, u, q.id, data)
     /\ (reqs[1].pc = "save" /\ ~reqs[1].edge) =>
          /\ reqs'[1].pc = "idle"
          /\ orders' = orders /\ designStatus' = designStatus
          /\ {r \in quotes' : r.id # reqs[1].inst.id}
               = {r \in quotes : r.id # reqs[1].inst.id}
     /\ (orders' # orders \/ designStatus' # designStatus) =>
          reqs[1].pc = "body" /\ reqs[1].edge]_vars

\* The owner's rejection of a quote was applied: no order exists, the design is
\* not ordered and another quote of the design is still pending.
C30_Witness ==
  /\ resp = Resp("update", 200, "updated")
  /\ orders = {}
  /\ \E q, p \in quotes :
       /\ q.status = REJECTED /\ designStatus[q.design] = ANALYSIS_COMPLETE
       /\ p.design = q.design /\ p.id # q.id /\ p.status = PENDING

\* C31: the step that removes a quote removes exactly that quote, leaves every
\* other quote, every design status and every order unchanged, and leaves no
\* order that refers to a quote which no longer exists.
C31_DeleteNoCascade ==
  [][(reqs[1].pc = "destroy" /\ reqs'[1].pc = "idle") =>
       /\ quotes' = {q \in quotes : q.id # reqs[1].inst.id}
       /\ designStatus' = designStatus
       /\ orders' = orders
       /\ \A o \in orders' : o.accepted_quote \in IdsOf(quotes')]_vars

\* C32: an update request of a staff user who is neither the owner of the design
\* nor the quote's manufacturer passes the update policy and is applied, whatever
\* the status of the quote and whatever the payload, a status included: the
\* request goes on to save the quote with the fields of the payload.
C32_StaffUpdatesAnyQuote ==
  [][UpdateStep =>
       \A q \in quotes, u \in Users, data \in UpdatePayloads :
         (/\ is_staff[u] /\ u # q.manufacturer /\ u # customer[q.design]
          /\ ~(/\ reqs'[1].pc = "save"
               /\ reqs'[1].inst = ApplyUpdate(q, ValidatedData(data))))
         => ~UpdateLoad(1, u, q.id, data)]_vars

\* The validations of the material section that fail for the arguments.
MaterialFailures(design, manufacturer) ==
  IF design.material # KnownMaterial THEN {"material"}
  ELSE (IF manufacturer.density_g_cm3 <= 0 THEN {"density"} ELSE {})
       \cup (IF manufacturer.cost_usd_kg < 0 THEN {"cost"} ELSE {})

\* The validations of the machine time section that fail for the arguments.
MachineFailures(manufacturer) ==
  (IF manufacturer.base_time_cost_unit < 0 THEN {"base_time"} ELSE {})
  \cup (IF manufacturer.time_multiplier_complexity_cost_unit < 0
        THEN {"time_multiplier"} ELSE {})

\* Every validation that fails for a design with geometric data.
Failures(design, manufacturer) ==
  (IF design.volume_cm3 <= 0 THEN {"volume"} ELSE {})
  \cup MaterialFailures(design, manufacturer)
  \cup MachineFailures(manufacturer)
  \cup (IF manufacturer.markup_factor <= 0 THEN {"markup"} ELSE {})

\* C33: for a design with geometric data the returned error list has exactly one
\* message for each validation that fails, and the details hold no material
\* cost when the material section has an error, no machine time cost when the
\* machine time section has one, and no final price (nor is one returned) when
\* the markup is not positive.
C33_ErrorsAccumulate ==
  (pricing.called /\ pricing.design.geometric_data) =>
    LET r == pricing.result
        d == pricing.design
        m == pricing.manufacturer
    IN  /\ {e.msg : e \in Messages(r.errors)} = Failures(d, m)
        /\ Len(r.errors) = Cardinality(Failures(d, m))
        /\ MaterialFailures(d, m) # {} =>
             "calculated_material_cost_usd" \notin r.calculation_details
        /\ MachineFailures(m) # {} =>
             "calculated_machine_time_cost_units" \notin r.calculation_details
        /\ m.markup_factor <= 0 =>
             /\ "final_total_price_usd" \notin r.calculation_details
             /\ r.price_usd = {}

\* A call in which six validations failed, reported together.
C33_Witness ==
  /\ pricing.called /\ pricing.design.geometric_data
  /\ Len(pricing.result.errors) = 6
  /\ "calculated_material_cost_usd" \notin pricing.result.calculation_details

\* Requests one at a time in which no exception is raised in the acceptance
\* block: every block that is entered commits.
NextSeqNoFailure ==
  \/ \E u \in Users, d \in DesignRefs, data \in CreatePayloads :
       CreatePerm(1, u, d, data)
  \/ CreateCheck(1)
  \/ CreateInsert(1)
  \/ \E u \in Users, id \in QuoteIds, data \in UpdatePayloads :
       UpdateLoad(1, u, id, data)
  \/ UpdateSave(1)
  \/ AcceptGuard(1)
  \/ AcceptBody(1) /\ ~AcceptFailed(1)
  \/ \E u \in Users, id \in QuoteIds : DeleteLoad(1, u, id)
  \/ DeleteRow(1)
  \/ \E u \in Users, d \in DesignRefs : ListQuotes(1, u, d)
  \/ \E u \in Users, id \in QuoteIds : Retrieve(1, u, id)
  \/ Deliver

SpecSeqNoFailure == InitSeq /\ [][NextSeqNoFailure]_vars

\* C34: with requests one at a time and no failing acceptance block, each design
\* has at most one quote in status accepted.
C34_AtMostOneAccepted ==
  \A d \in Designs :
    Cardinality({q \in quotes : q.design = d /\ q.status = ACCEPTED}) <= 1

\* C35: with requests one at a time, a design that is ordered stays ordered
\* under every step of every quote request, the set of its quotes never grows,
\* and every create request for it is denied with 403, the state unchanged.
C35_OrderedDesignClosed ==
  [][\A d \in Designs :
       designStatus[d] = ORDERED =>
         /\ designStatus'[d] = ORDERED
         /\ {q.id : q \in {x \in quotes' : x.design = d}}
              \subseteq IdsOf(QuotesOfDesign(d))
         /\ CreateStep =>
              \A u \in Users : ~Denied("create") => ~CreateBy(u, d)]_vars

\* A design was ordered by an acceptance, and a create request of a manufacturer
\* who has no quote for it was then denied for its status.
C35_Witness ==
  /\ resp = Resp("create", 403, "design_status")
  /\ \E o \in orders :
       /\ designStatus[o.design] = ORDERED
       /\ \E u \in Users :
            /\ role[u] = "manufacturer" /\ u # customer[o.design]
            /\ ~HasQuoteFor(o.design, u)

\* The request of the slot is in the acceptance block of quote id, or at its
\* guard.
InBlockOf(r, id) == r.pc \in {"guard", "body"} /\ r.inst.id = id

\* The step rejects a pending quote that is not the quote of the request.
RejectsSibling ==
  \E q \in quotes, x \in quotes' :
    /\ x.id = q.id /\ q.status = PENDING /\ x.status = REJECTED
    /\ q.id # reqs[1].inst.id

\* C36: with requests one at a time, when a quote is stored as accepted and has
\* no order, outside its own acceptance request, no step creates an order for
\* it or enters the acceptance block for it, and a step that sets a design to
\* ordered or rejects a pending quote other than the one its request names
\* commits the block of another quote.
C36_NoRecovery ==
  [][\A q \in quotes :
       (/\ q.status = ACCEPTED /\ ~HasOrder(q.id)
        /\ ~InBlockOf(reqs[1], q.id)) =>
         /\ OrdersOf(orders', q.id) = {}
         /\ ~InBlockOf(reqs'[1], q.id)
         /\ (designStatus' # designStatus \/ RejectsSibling) =>
              AcceptCommitted(1) /\ reqs[1].inst.id # q.id]_vars

\* The design owner asked again for the acceptance of the only quote, which is
\* accepted and has no order, and was denied; the design is not ordered.
C36_Witness ==
  /\ resp = Resp("update", 403, "customer_transition")
  /\ orders = {}
  /\ \E q \in quotes :
       /\ quotes = {q}
       /\ q.status = ACCEPTED
       /\ designStatus[q.design] = ANALYSIS_COMPLETE

\* C37: with requests one at a time, every update request of an actor who is not
\* staff on a quote that is rejected or expired is denied with 403 and changes
\* nothing; a stored quote that is rejected or expired is changed only by the
\* save of an update request on that quote (which, by the first part, is a
\* request of staff); and every step that changes the status of a quote starts
\* from pending.
C37_TerminalForParticipants ==
  [][/\ UpdateStep =>
          \A q \in quotes, u \in Users, data \in UpdatePayloads :
            (/\ ~is_staff[u] /\ q.status \in {REJECTED, EXPIRED}
             /\ ~UpdateDenied)
            => ~UpdateLoad(1, u, q.id, data)
     /\ \A q \in quotes :
          (/\ q.status \in {REJECTED, EXPIRED}
           /\ q \notin quotes' /\ q.id \in IdsOf(quotes'))
          => reqs[1].pc = "save" /\ reqs[1].inst.id = q.id
     /\ \A q \in quotes, x \in quotes' :
          (x.id = q.id /\ x.status # q.status) => q.status = PENDING]_vars

\* The only quote is expired, and the design owner's request to accept it was
\* denied.
C37_Witness ==
  /\ resp = Resp("update", 403, "customer_transition")
  /\ \E q \in quotes : quotes = {q} /\ q.status = EXPIRED

\* The step answers the create request with an error, or passes it on to the
\* duplicate check; the quotes are unchanged.
CreateRefusedOrChecked ==
  /\ quotes' = quotes
  /\ \/ reqs'[1].pc = "check"
     \/ reqs'[1].pc = "idle" /\ resp'.op = "create" /\ resp'.code \in {400, 403}

\* C38: with requests one at a time, a manufacturer whose quote for a design is
\* rejected, expired or accepted cannot add another quote for that design (the
\* duplicate check answers 400 whatever the status of the stored quote) and is
\* denied the deletion of the stored one; a quote is inserted only for a pair of
\* design and manufacturer that has no quote, and a quote is removed only by its
\* manufacturer while it is pending, or by staff.
C38_DuplicateCountsEveryStatus ==
  [][/\ CreateStep =>
          \A q \in quotes, data \in CreatePayloads :
            (q.status # PENDING /\ ~CreateRefusedOrChecked)
            => ~CreatePerm(1, q.manufacturer, q.design, data)
     /\ (reqs[1].pc = "check"
         /\ \E q \in quotes : /\ q.design = reqs[1].inst.design
                               /\ q.manufacturer = reqs[1].inst.manufacturer
                               /\ q.status # PENDING)
        => /\ quotes' = quotes
           /\ resp' = Resp("create", 400, "duplicate")
     /\ \A x \in quotes' :
          x.id \notin IdsOf(quotes) => ~HasQuoteFor(x.design, x.manufacturer)
     /\ DeleteStep =>
          \A q \in quotes, u \in Users :
            /\ (u = q.manufacturer /\ q.status # PENDING /\ ~Denied("delete"))
               => ~DeleteLoad(1, u, q.id)
            /\ (/\ ~is_staff[u]
                /\ ~(u = q.manufacturer /\ q.status = PENDING)
                /\ reqs'[1].pc = "destroy")
               => ~DeleteLoad(1, u, q.id)]_vars

\* The only quote is rejected, its design still open for quotes, and a delete
\* request on it was denied because it is not a pending quote of the actor.
C38_Witness ==
  /\ resp = Resp("delete", 403, "not_pending_own")
  /\ \E q \in quotes :
       /\ quotes = {q} /\ q.status = REJECTED
       /\ designStatus[q.design] = ANALYSIS_COMPLETE

\* The accounts that are not staff: the design owners and the manufacturers.
Participants == {u \in Users : ~is_staff[u]}

\* Requests one at a time, of design owners and manufacturers only.
NextSeqNoStaff ==
  \/ \E u \in Participants, d \in DesignRefs, data \in CreatePayloads :
       CreatePerm(1, u, d, data)
  \/ CreateCheck(1)
  \/ CreateInsert(1)
  \/ \E u \in Participants, id \in QuoteIds, data \in UpdatePayloads :
       UpdateLoad(1, u, id, data)
  \/ UpdateSave(1)
  \/ AcceptGuard(1)
  \/ AcceptBody(1)
  \/ \E u \in Participants, id \in QuoteIds : DeleteLoad(1, u, id)
  \/ DeleteRow(1)
  \/ \E u \in Participants, d \in DesignRefs : ListQuotes(1, u, d)
  \/ \E u \in Participants, id \in QuoteIds : Retrieve(1, u, id)
  \/ Deliver

SpecSeqNoStaff == InitSeq /\ [][NextSeqNoStaff]_vars

\* C39: with requests one at a time from design owners and manufacturers only,
\* the quote of every order is stored and the order's total price is the price
\* of that quote.
C39_OrderTotalIsQuotePrice ==
  \A o \in orders :
    \E q \in quotes : q.id = o.accepted_quote /\ o.total = q.price

\* The manufacturer changed the price while the quote was pending, the quote was
\* accepted at the new price, and a later update request on it was denied.
C39_Witness ==
  /\ resp = Resp("update", 403, "state_or_data")
  /\ \E o \in orders, q \in quotes :
       q.id = o.accepted_quote /\ q.price = 150 /\ o.total = 150

\* C40: the step that commits the acceptance block of a quote leaves every quote
\* unchanged that is of another design or is not pending (and the accepted
\* quote itself); a quote it changes is a pending quote of the same design,
\* and only its status changes.
C40_SiblingRejectionScope ==
  [][\A s \in Slots :
       AcceptCommitted(s) =>
         /\ IdsOf(quotes') = IdsOf(quotes)
         /\ \A q \in quotes :
              q \notin quotes' =>
                /\ q.design = reqs[s].inst.design
                /\ q.status = PENDING
                /\ q.id # reqs[s].inst.id
                /\ [q EXCEPT !.status = REJECTED] \in quotes']_vars

\* A quote has an order, and another quote of the same design is still expired.
C40_Witness ==
  \E o \in orders, q \in quotes :
    /\ q.design = o.design /\ q.id # o.accepted_quote
    /\ q.status = EXPIRED
    /\ designStatus[o.design] = ORDERED
====
